---- MODULE Spec2Model ----
(***************************************************************************)
(* Model of the minimal SFU of src/main.go: the Session Set (SFU.clients), *)
(* the Track Registry (SFU.tracks), the registry-wide sync.RWMutex         *)
(* (SFU.mu), the per-session sync.Mutex (Client.mu), the websocket read    *)
(* loop of every session with the handlers it runs inline, and the OnTrack *)
(* callbacks the transport engine starts as goroutines of their own.       *)
(*                                                                         *)
(* Goroutines: one per session (handleWebSocket) and one per inbound track *)
(* (the OnTrack callback).  A step of the model is one of their blocking   *)
(* points together with the non-blocking code that follows it.             *)
(***************************************************************************)
EXTENDS Naturals, FiniteSets, Sequences, Bags

\* Bounds of the model: the sessions, and the events of the environment
\* (connections accepted, messages read, inbound tracks reported).
NumClients == 2
MaxEvents == 5

Clients == 1..NumClients
Kinds == {"video", "audio"}
Nil == 0

VARIABLES
    clients,     \* SFU.clients: the ids in the Session Set
    tracks,      \* SFU.tracks: clientID -> kind -> track handle (Nil: no entry)
    Publisher,   \* Client.Publisher: a connection or Nil
    Subscriber,  \* Client.Subscriber: a connection or Nil
    mu,          \* Client.mu: TRUE while the session's own handler holds it
    rwWriter,    \* SFU.mu: the goroutine that announced Lock() and not yet Unlock()ed
    rwReaders,   \* SFU.mu: the goroutines inside RLock()..RUnlock()
    pc,          \* position of each session's handleWebSocket goroutine
    events,      \* number of environment events so far (bounded by MaxEvents)
    conns,       \* the peer connections created so far, in creation order
    ot,          \* the OnTrack callbacks started so far, one per track handle
    calls,       \* transport calls made on connections (a bag of records)
    sent,        \* publish_answer / subscribe_offer messages written
    cleanups,    \* number of times the cleanup of a session ran to its end
    orderErrors  \* messages dropped because their connection does not exist

vars == <<clients, tracks, Publisher, Subscriber, mu, rwWriter, rwReaders, pc,
          events, conns, ot, calls, sent, cleanups, orderErrors>>

\* Goroutine identities.
WS(c) == <<"ws", c>>
OT(t) == <<"ot", t>>
NoProc == <<"none", 0>>

NoTracks == [k \in Kinds |-> Nil]

Init ==
    /\ clients = {}
    /\ tracks = [c \in Clients |-> NoTracks]
    /\ Publisher = [c \in Clients |-> Nil]
    /\ Subscriber = [c \in Clients |-> Nil]
    /\ mu = [c \in Clients |-> FALSE]
    /\ rwWriter = NoProc
    /\ rwReaders = {}
    /\ pc = [c \in Clients |-> "init"]
    /\ events = 0
    /\ conns = <<>>
    /\ ot = <<>>
    /\ calls = EmptyBag
    /\ sent = {}
    /\ cleanups = [c \in Clients |-> 0]
    /\ orderErrors = {}

----------------------------------------------------------------------------
\* Helpers on connections and the call log.

IsClosed(n) == conns[n].closes > 0

\* pc.Close(): one more close call on connection n.
CloseConn(cs, n) == [cs EXCEPT ![n].closes = @ + 1]

\* ClosePrior without the Close(): the prior connection is dropped unclosed.
ClosePriorSkipped(cs, n) == cs

\* `if client.X != nil { client.X.Close() }`
ClosePrior(cs, n) == IF n # Nil THEN CloseConn(cs, n) ELSE cs

NewConn(c, role) == [owner |-> c, role |-> role, est |-> FALSE, closes |-> 0]

AddTrackCall(n, t, by, ok) ==
    [op |-> "AddTrack", conn |-> n, track |-> t, by |-> by, ok |-> ok]

OtherCall(op, n, by) ==
    [op |-> op, conn |-> n, track |-> Nil, by |-> by, ok |-> ~IsClosed(n)]

Log(b, r) == b (+) SetToBag({r})

----------------------------------------------------------------------------
\* handleWebSocket: connect.

\* The upgrade succeeds and the session gets a fresh id (the model numbers the
\* sessions in the order they connect); s.mu.Lock() announces the writer, and
\* new readers block from here on.
ConnectLock(c) ==
    /\ pc[c] = "init"
    /\ \A d \in 1..(c - 1) : pc[d] # "init"
    /\ events < MaxEvents
    /\ events' = events + 1
    /\ rwWriter = NoProc
    /\ rwWriter' = WS(c)
    /\ pc' = [pc EXCEPT ![c] = "connect"]
    /\ UNCHANGED <<clients, tracks, Publisher, Subscriber, mu, rwReaders,
                   conns, ot, calls, sent, cleanups, orderErrors>>

\* the readers have left: s.clients[clientID] = client; s.mu.Unlock(); welcome.
ConnectInsert(c) ==
    /\ pc[c] = "connect"
    /\ rwReaders = {}
    /\ clients' = clients \cup {c}
    /\ rwWriter' = NoProc
    /\ pc' = [pc EXCEPT ![c] = "read"]
    /\ UNCHANGED <<tracks, Publisher, Subscriber, mu, rwReaders,
                   events, conns, ot, calls, sent, cleanups, orderErrors>>

----------------------------------------------------------------------------
\* handleWebSocket: the read loop.

\* ws.ReadMessage() returns a message (an event of the environment);
\* the handler the switch on data["type"] picks runs inline, and client.mu,
\* which only this goroutine holds across a blocking point, is free.
Reads(c) ==
    /\ pc[c] = "read"
    /\ events < MaxEvents
    /\ ~mu[c]
    /\ events' = events + 1

\* a message that is not JSON (continue) or whose type matches no case.
ReadIgnored(c) ==
    /\ pc[c] = "read"
    /\ UNCHANGED vars

\* ws.ReadMessage() returns an error (the client closed the channel, or it
\* failed): break out of the loop, to the cleanup and its s.mu.Lock().  The
\* goroutine holds no lock while it queues for the writer's turn, so the step
\* is taken when the turn is free: it announces the writer, and new readers
\* block from here on.
ReadError(c) ==
    /\ pc[c] = "read"
    /\ rwWriter = NoProc
    /\ rwWriter' = WS(c)
    /\ pc' = [pc EXCEPT ![c] = "cl_wait"]
    /\ UNCHANGED <<clients, tracks, Publisher, Subscriber, mu, rwReaders,
                   events, conns, ot, calls, sent, cleanups, orderErrors>>

----------------------------------------------------------------------------
\* handleWebSocket: the cleanup after the loop.

\* DeleteTracks emptying the whole registry.
DeleteAllTracks(tr, c) == [d \in Clients |-> NoTracks]

\* delete(s.tracks, clientID)
DeleteTracks(tr, c) == [tr EXCEPT ![c] = NoTracks]

\* delete(s.clients, clientID); delete(s.tracks, clientID); s.mu.Unlock()
CleanupDelete(c) ==
    /\ pc[c] = "cl_wait"
    /\ rwReaders = {}
    /\ clients' = clients \ {c}
    /\ tracks' = DeleteTracks(tracks, c)
    /\ rwWriter' = NoProc
    /\ pc' = [pc EXCEPT ![c] = "cl_close"]
    /\ UNCHANGED <<Publisher, Subscriber, mu, rwReaders,
                   events, conns, ot, calls, sent, cleanups, orderErrors>>

\* client.Publisher.Close() and client.Subscriber.Close(), each if not nil.
CleanupClose(c) ==
    /\ pc[c] = "cl_close"
    /\ conns' = ClosePrior(ClosePrior(conns, Publisher[c]), Subscriber[c])
    /\ cleanups' = [cleanups EXCEPT ![c] = @ + 1]
    /\ pc' = [pc EXCEPT ![c] = "done"]
    /\ UNCHANGED <<clients, tracks, Publisher, Subscriber, mu, rwWriter, rwReaders,
                   events, ot, calls, sent, orderErrors>>

----------------------------------------------------------------------------
\* handlePublish.

\* api.NewPeerConnection fails: the old connection was closed, the field is kept.
PublishCreateFails(c) ==
    /\ Reads(c)
    /\ conns' = ClosePrior(conns, Publisher[c])
    /\ pc' = [pc EXCEPT ![c] = "read"]
    /\ UNCHANGED <<clients, tracks, Publisher, Subscriber, mu, rwWriter, rwReaders,
                   ot, calls, sent, cleanups, orderErrors>>

\* The connection is created and installed; SetRemoteDescription, CreateAnswer
\* or SetLocalDescription fails: the three returns leave the same state.
PublishNegotiationFails(c) ==
    /\ Reads(c)
    /\ conns' = Append(ClosePrior(conns, Publisher[c]), NewConn(c, "pub"))
    /\ Publisher' = [Publisher EXCEPT ![c] = Len(conns) + 1]
    /\ pc' = [pc EXCEPT ![c] = "read"]
    /\ UNCHANGED <<clients, tracks, Subscriber, mu, rwWriter, rwReaders,
                   ot, calls, sent, cleanups, orderErrors>>

\* The connection is created, installed and negotiated; the handler waits for
\* <-gatheringComplete with client.mu held.
PublishNegotiated(c) ==
    /\ Reads(c)
    /\ conns' = Append(ClosePrior(conns, Publisher[c]), NewConn(c, "pub"))
    /\ Publisher' = [Publisher EXCEPT ![c] = Len(conns) + 1]
    /\ mu' = [mu EXCEPT ![c] = TRUE]
    /\ pc' = [pc EXCEPT ![c] = "pub_gather"]
    /\ UNCHANGED <<clients, tracks, Subscriber, rwWriter, rwReaders,
                   ot, calls, sent, cleanups, orderErrors>>

\* gathering completes: publish_answer is written, the deferred Unlock runs.
PublishGathered(c) ==
    /\ pc[c] = "pub_gather"
    /\ conns' = [conns EXCEPT ![Publisher[c]].est = TRUE]
    /\ sent' = sent \cup {[to |-> c, type |-> "publish_answer",
                           conn |-> Publisher[c], tracks |-> {}]}
    /\ mu' = [mu EXCEPT ![c] = FALSE]
    /\ pc' = [pc EXCEPT ![c] = "read"]
    /\ UNCHANGED <<clients, tracks, Publisher, Subscriber, rwWriter, rwReaders,
                   events, ot, calls, cleanups, orderErrors>>

----------------------------------------------------------------------------
\* handleSubscribe.

\* api.NewPeerConnection fails: the old connection was closed, the field is kept.
SubscribeCreateFails(c) ==
    /\ Reads(c)
    /\ conns' = ClosePrior(conns, Subscriber[c])
    /\ pc' = [pc EXCEPT ![c] = "read"]
    /\ UNCHANGED <<clients, tracks, Publisher, Subscriber, mu, rwWriter, rwReaders,
                   ot, calls, sent, cleanups, orderErrors>>

\* The connection is created and installed; next is s.mu.RLock(), client.mu held.
SubscribeInstall(c) ==
    /\ Reads(c)
    /\ conns' = Append(ClosePrior(conns, Subscriber[c]), NewConn(c, "sub"))
    /\ Subscriber' = [Subscriber EXCEPT ![c] = Len(conns) + 1]
    /\ mu' = [mu EXCEPT ![c] = TRUE]
    /\ pc' = [pc EXCEPT ![c] = "sub_rlock"]
    /\ UNCHANGED <<clients, tracks, Publisher, rwWriter, rwReaders,
                   ot, calls, sent, cleanups, orderErrors>>

\* SnapshotTracks without the `continue`: the session's own tracks too.
SnapshotTracksWithOwn(c) ==
    {tracks[o][k] : o \in Clients, k \in Kinds} \ {Nil}

\* `for otherID, tracks := range s.tracks { if otherID == client.ID { continue } ...`
SnapshotTracks(c) ==
    {tracks[o][k] : o \in Clients \ {c}, k \in Kinds} \ {Nil}

\* SnapshotCalls returning at the first failure: no call for the handles left.
SnapshotCallsStopAtFailure(c, failed) ==
    IF failed = {}
    THEN SetToBag({AddTrackCall(Subscriber[c], t, "snapshot", TRUE) :
                     t \in SnapshotTracks(c)})
    ELSE SetToBag({AddTrackCall(Subscriber[c], t, "snapshot", FALSE) :
                     t \in failed})

\* The AddTrack calls of the snapshot loop; those on the tracks of `failed` fail.
SnapshotCalls(c, failed) ==
    SetToBag({AddTrackCall(Subscriber[c], t, "snapshot", t \notin failed) :
                t \in SnapshotTracks(c)})

\* RLock .. RUnlock with the AddTrack of every registered track of the others,
\* then CreateOffer and SetLocalDescription: they succeed (wait for gathering)
\* or one of them fails (return).
SubscribeSnapshot(c) ==
    /\ pc[c] = "sub_rlock"
    /\ rwWriter = NoProc
    /\ \E failed \in SUBSET SnapshotTracks(c) :
            calls' = calls (+) SnapshotCalls(c, failed)
    /\ \/ /\ pc' = [pc EXCEPT ![c] = "sub_gather"]
          /\ mu' = mu
       \/ /\ pc' = [pc EXCEPT ![c] = "read"]
          /\ mu' = [mu EXCEPT ![c] = FALSE]
    /\ UNCHANGED <<clients, tracks, Publisher, Subscriber, rwWriter, rwReaders,
                   events, conns, ot, sent, cleanups, orderErrors>>

\* The tracks connection n carries: those of its successful AddTrack calls.
TracksOn(n) ==
    {r.track : r \in {x \in BagToSet(calls) : x.op = "AddTrack" /\ x.conn = n /\ x.ok}}

\* gathering completes: subscribe_offer is written, the deferred Unlock runs.
SubscribeGathered(c) ==
    /\ pc[c] = "sub_gather"
    /\ conns' = [conns EXCEPT ![Subscriber[c]].est = TRUE]
    /\ sent' = sent \cup {[to |-> c, type |-> "subscribe_offer",
                           conn |-> Subscriber[c], tracks |-> TracksOn(Subscriber[c])]}
    /\ mu' = [mu EXCEPT ![c] = FALSE]
    /\ pc' = [pc EXCEPT ![c] = "read"]
    /\ UNCHANGED <<clients, tracks, Publisher, Subscriber, rwWriter, rwReaders,
                   events, ot, calls, cleanups, orderErrors>>

----------------------------------------------------------------------------
\* handleAnswer and handleICE.

\* AnswerCalls without the nil check: the call is made whatever the field holds.
AnswerCallsUnchecked(c) ==
    SetToBag({[op |-> "SetRemoteDescription", conn |-> Subscriber[c],
               track |-> Nil, by |-> "answer", ok |-> Subscriber[c] # Nil]})

\* The calls handleAnswer makes: none without a subscriber connection.
AnswerCalls(c) ==
    IF Subscriber[c] = Nil
    THEN EmptyBag
    ELSE SetToBag({OtherCall("SetRemoteDescription", Subscriber[c], "answer")})

\* `if client.Subscriber == nil { log.Printf(... "No subscriber to set answer") ; return }`
HandleAnswer(c) ==
    /\ Reads(c)
    /\ calls' = calls (+) AnswerCalls(c)
    /\ orderErrors' = IF Subscriber[c] = Nil
                      THEN orderErrors \cup {<<c, "answer">>} ELSE orderErrors
    /\ UNCHANGED <<clients, tracks, Publisher, Subscriber, mu, rwWriter, rwReaders,
                   pc, conns, ot, sent, cleanups>>

\* IceSelect falling back on the other connection when the selected one is nil.
IceSelectFallback(c, target) ==
    IF target = "publish"
    THEN (IF Publisher[c] # Nil THEN Publisher[c] ELSE Subscriber[c])
    ELSE (IF Subscriber[c] # Nil THEN Subscriber[c] ELSE Publisher[c])

\* `if target == "publish" { pc = client.Publisher } else { pc = client.Subscriber }`
IceSelect(c, target) ==
    IF target = "publish" THEN Publisher[c] ELSE Subscriber[c]

\* data["target"]: "publish", "subscribe", or anything else ("": no target).
Targets == {"publish", "subscribe", ""}

\* The calls handleICE makes: none when the selected connection is nil
\* (return) or the candidate does not parse.
IceCalls(c, target, parses) ==
    IF IceSelect(c, target) = Nil \/ ~parses
    THEN EmptyBag
    ELSE SetToBag({OtherCall("AddICECandidate", IceSelect(c, target), "ice")})

HandleICEOn(c, target, parses) ==
    /\ Reads(c)
    /\ calls' = calls (+) IceCalls(c, target, parses)
    /\ orderErrors' = IF IceSelect(c, target) = Nil
                      THEN orderErrors \cup {<<c, "ice">>} ELSE orderErrors
    /\ UNCHANGED <<clients, tracks, Publisher, Subscriber, mu, rwWriter, rwReaders,
                   pc, conns, ot, sent, cleanups>>

HandleICE(c) ==
    \E target \in Targets, parses \in BOOLEAN : HandleICEOn(c, target, parses)

----------------------------------------------------------------------------
\* The OnTrack callback of a publisher connection, one goroutine per inbound track.

Started(t) == t \in 1..Len(ot)
At(t, where) == Started(t) /\ ot[t].pc = where

\* The engine reports an inbound track of kind k on c's publisher connection,
\* which is negotiated and open; NewTrackLocalStaticRTP succeeds; s.mu.Lock()
\* announces the writer (the callback holds no lock while it queues for the
\* writer's turn, so the step is taken when the turn is free).
OnTrack(c, k) ==
    /\ events < MaxEvents
    /\ events' = events + 1
    /\ Publisher[c] # Nil
    /\ conns[Publisher[c]].est
    /\ ~IsClosed(Publisher[c])
    /\ ot' = Append(ot, [pc |-> "ot_wait", owner |-> c, kind |-> k,
                         conn |-> Publisher[c], cur |-> Nil, todo |-> {},
                         since |-> 0, end |-> "no"])
    /\ rwWriter = NoProc
    /\ rwWriter' = OT(Len(ot)+1)
    /\ UNCHANGED <<clients, tracks, Publisher, Subscriber, mu, rwReaders,
                   pc, conns, calls, sent, cleanups, orderErrors>>

\* The same, and NewTrackLocalStaticRTP fails: the callback returns.
OnTrackFails(c) ==
    /\ Publisher[c] # Nil
    /\ conns[Publisher[c]].est
    /\ ~IsClosed(Publisher[c])
    /\ UNCHANGED vars

\* s.tracks[client.ID][trackKey] = localTrack; s.mu.Unlock()
OnTrackStore(t) ==
    /\ At(t, "ot_wait")
    /\ rwReaders = {}
    /\ tracks' = [tracks EXCEPT ![ot[t].owner][ot[t].kind] = t]
    /\ rwWriter' = NoProc
    /\ ot' = [ot EXCEPT ![t].pc = "ot_rlock"]
    /\ UNCHANGED <<clients, Publisher, Subscriber, mu, rwReaders,
                   pc, events, conns, calls, sent, cleanups, orderErrors>>

\* FanoutTargets with the test inverted: the publishing session only.
FanoutTargetsOnlySelf(owner) == clients \cap {owner}

\* FanoutTargets without the `continue`: the publishing session too.
FanoutTargetsWithSelf(owner) == clients

\* `for otherID, otherClient := range s.clients { if otherID == client.ID { continue }`
FanoutTargets(owner) == clients \ {owner}

\* The loop moves on to one of the sessions left (map order), or ends: RUnlock
\* and on to the forwarding loop.  The records the callback may move to.
FanoutAdvance(r, left) ==
    IF left = {}
    THEN {[r EXCEPT !.pc = "ot_forward", !.cur = Nil, !.todo = {}]}
    ELSE {[r EXCEPT !.pc = "ot_fanout", !.cur = o, !.todo = left] : o \in left}

\* s.mu.RLock() and the start of the loop over s.clients.  The callback's
\* record keeps the number of connections that existed when the loop started
\* (since).
OnTrackRLock(t) ==
    /\ At(t, "ot_rlock")
    /\ rwWriter = NoProc
    /\ \E nxt \in FanoutAdvance(ot[t], FanoutTargets(ot[t].owner)) :
         /\ ot' = [ot EXCEPT ![t] = [nxt EXCEPT !.since = Len(conns)]]
         /\ rwReaders' = IF nxt.pc = "ot_fanout"
                         THEN rwReaders \cup {OT(t)} ELSE rwReaders
    /\ UNCHANGED <<clients, tracks, Publisher, Subscriber, mu, rwWriter,
                   pc, events, conns, calls, sent, cleanups, orderErrors>>

\* FanoutCalls without the AddTrack: the fan-out visits the session and adds nothing.
FanoutCallsNone(t, o) == {EmptyBag}

\* `if otherClient.Subscriber != nil { otherClient.Subscriber.AddTrack(localTrack) }`
\* AddTrack fails on a closed connection and may fail on an open one.
FanoutCalls(t, o) ==
    IF Subscriber[o] = Nil
    THEN {EmptyBag}
    ELSE {SetToBag({AddTrackCall(Subscriber[o], t, "fanout", ok)}) :
            ok \in IF IsClosed(Subscriber[o]) THEN {FALSE} ELSE BOOLEAN}

\* SessionLockFree ignoring the holder: Lock() returns whoever holds the mutex.
SessionLockIgnored(o) == TRUE

\* otherClient.mu.Lock() returns: no handler of session o holds its mutex.
SessionLockFree(o) == ~mu[o]

\* otherClient.mu.Lock(); the add; otherClient.mu.Unlock(); the next session.
OnTrackVisit(t) ==
    /\ At(t, "ot_fanout")
    /\ SessionLockFree(ot[t].cur)
    /\ \E b \in FanoutCalls(t, ot[t].cur) : calls' = calls (+) b
    /\ \E nxt \in FanoutAdvance(ot[t], ot[t].todo \ {ot[t].cur}) :
         /\ ot' = [ot EXCEPT ![t] = nxt]
         /\ rwReaders' = IF nxt.pc = "ot_fanout"
                         THEN rwReaders ELSE rwReaders \ {OT(t)}
    /\ UNCHANGED <<clients, tracks, Publisher, Subscriber, mu, rwWriter,
                   pc, events, conns, sent, cleanups, orderErrors>>

\* OnTrackEnd going on after the error: the loop reads again.
ReadAgain(r, closed) == r

\* `if err != nil { ...; return }`: the callback returns; its record keeps
\* whether the connection of the stream was closed by then (end).
ReadFailed(r, closed) ==
    [r EXCEPT !.pc = "done", !.end = IF closed THEN "closed" ELSE "stream"]

\* track.Read returns an error (the stream ended, or its connection was closed):
\* the forwarding loop returns.
OnTrackEnd(t) ==
    /\ At(t, "ot_forward")
    /\ ot' = [ot EXCEPT ![t] = ReadFailed(ot[t], IsClosed(ot[t].conn))]
    /\ UNCHANGED <<clients, tracks, Publisher, Subscriber, mu, rwWriter, rwReaders,
                   pc, events, conns, calls, sent, cleanups, orderErrors>>

Next ==
    \/ \E c \in Clients :
        \/ ConnectLock(c) \/ ConnectInsert(c)
        \/ ReadIgnored(c) \/ ReadError(c)
        \/ CleanupDelete(c) \/ CleanupClose(c)
        \/ PublishCreateFails(c) \/ PublishNegotiationFails(c)
        \/ PublishNegotiated(c) \/ PublishGathered(c)
        \/ SubscribeCreateFails(c) \/ SubscribeInstall(c)
        \/ SubscribeSnapshot(c) \/ SubscribeGathered(c)
        \/ HandleAnswer(c) \/ HandleICE(c)
        \/ OnTrackFails(c)
        \/ \E k \in Kinds : OnTrack(c, k)
    \/ \E t \in 1..MaxEvents :
        \/ OnTrackStore(t) \/ OnTrackRLock(t)
        \/ OnTrackVisit(t) \/ OnTrackEnd(t)

Spec == Init /\ [][Next]_vars

----------------------------------------------------------------------------
\* The goroutines, and what each is blocked on.

Procs == {WS(c) : c \in Clients} \cup {OT(t) : t \in 1..Len(ot)}

\* The goroutines inside s.mu.Lock() that wait for the readers to leave.
PendingWriter(p) ==
    \/ \E c \in Clients : p = WS(c) /\ pc[c] \in {"connect", "cl_wait"}
    \/ \E t \in 1..Len(ot) : p = OT(t) /\ ot[t].pc = "ot_wait"

\* The goroutines at s.mu.RLock().
AtRLock(p) ==
    \/ \E c \in Clients : p = WS(c) /\ pc[c] = "sub_rlock"
    \/ \E t \in 1..Len(ot) : p = OT(t) /\ ot[t].pc = "ot_rlock"

\* p cannot take its next step before q takes one: q is a reader the pending
\* writer p waits for, the announced writer that keeps reader p out, or the
\* session whose handler holds the client.mu the fan-out p wants.
WaitsFor(p, q) ==
    \/ PendingWriter(p) /\ q \in rwReaders
    \/ AtRLock(p) /\ rwWriter # NoProc /\ q = rwWriter
    \/ \E t \in 1..Len(ot) :
          /\ p = OT(t) /\ ot[t].pc = "ot_fanout"
          /\ mu[ot[t].cur] /\ q = WS(ot[t].cur)

\* A set of goroutines each waiting on a lock that another of the set holds or
\* blocks: none of them ever runs again.
Deadlocked ==
    \E S \in SUBSET Procs :
        /\ S # {}
        /\ \A p \in S : \E q \in S : WaitsFor(p, q)

----------------------------------------------------------------------------
\* C1: once the cleanup of a session has removed its entries (it is past the
\* deletes of handleWebSocket), the Track Registry holds no entry owned by that
\* session and the Session Set does not contain it, whatever the inbound-track
\* callbacks of its publisher connection do afterwards.
C1_NoEntryAfterCleanup ==
    \A c \in Clients :
        pc[c] \in {"cl_close", "done"} =>
            /\ c \notin clients
            /\ tracks[c] = NoTracks

\* C2: no reachable state has a set of goroutines each waiting forever on a
\* session lock or on the registry-wide lock held or blocked by another.
C2_DeadlockFree == ~Deadlocked

----------------------------------------------------------------------------
\* Readings of the call log.

\* The AddTrack calls the fan-out of track t made on connection n.
FanoutCount(t, n) ==
    CopiesIn(AddTrackCall(n, t, "fanout", TRUE), calls)
        + CopiesIn(AddTrackCall(n, t, "fanout", FALSE), calls)

\* The fan-out loop of callback t has run to its end.
FanoutDone(t) == ot[t].pc \in {"ot_forward", "done"}

ConnsOf(c, role) ==
    {n \in 1..Len(conns) : conns[n].owner = c /\ conns[n].role = role}

Installed(c, role) == IF role = "pub" THEN Publisher[c] ELSE Subscriber[c]

\* C3: a fan-out makes no add-track call on the publishing session itself, at
\* most one per subscriber connection and per session, and, once its loop has
\* ended, exactly one on the subscriber connection of every other session of
\* the Session Set whose subscriber connection existed when the loop started
\* and is still the session's one.
C3_FanoutComplete ==
    /\ \A r \in BagToSet(calls) : r.conn \in 1..Len(conns)
    /\ \A t \in 1..Len(ot) :
        /\ \A n \in 1..Len(conns) :
            /\ FanoutCount(t, n) <= 1
            /\ FanoutCount(t, n) = 1 =>
                 conns[n].role = "sub" /\ conns[n].owner # ot[t].owner
        /\ \A o \in Clients :
             Cardinality({n \in ConnsOf(o, "sub") : FanoutCount(t, n) = 1}) <= 1
        /\ FanoutDone(t) =>
             \A o \in clients \ {ot[t].owner} :
                (Subscriber[o] # Nil /\ Subscriber[o] <= ot[t].since) =>
                    FanoutCount(t, Subscriber[o]) = 1

\* C3 witness: a fan-out has ended after exactly one add-track call on the
\* subscriber connection of another session of the Session Set.
C3_Witness ==
    \E t \in 1..Len(ot) : \E o \in clients \ {ot[t].owner} :
        /\ FanoutDone(t)
        /\ Subscriber[o] # Nil
        /\ FanoutCount(t, Subscriber[o]) = 1

\* No track of a session other than c has been stored in the registry so far.
NoOtherPublished(c) ==
    \A t \in 1..Len(ot) : ot[t].owner # c => ot[t].pc = "ot_wait"

\* The subscribe_offer messages written to c that carry no track.
EmptyOffers(c) ==
    {m \in sent : m.to = c /\ m.type = "subscribe_offer" /\ m.tracks = {}}

\* C4: while no other client has a registered track, a subscribe of c installs
\* a fresh subscriber connection, makes no add-track call on it and sends an
\* offer with zero tracks; and a fan-out of another client's track that starts
\* while that connection is installed adds the track to it.
C4_EmptySubscribeThenFanout ==
    \A c \in Clients :
        /\ NoOtherPublished(c) =>
            /\ \A r \in BagToSet(calls) :
                 r.op = "AddTrack" => conns[r.conn].owner # c
            /\ \A m \in sent :
                 (m.to = c /\ m.type = "subscribe_offer") => m.tracks = {}
            /\ pc[c] \in {"sub_rlock", "sub_gather"} =>
                 /\ Subscriber[c] # Nil
                 /\ conns[Subscriber[c]] = NewConn(c, "sub")
        /\ \A m \in EmptyOffers(c) : \A t \in 1..Len(ot) :
             (/\ ot[t].owner # c /\ FanoutDone(t)
              /\ c \in clients
              /\ Subscriber[c] = m.conn /\ m.conn <= ot[t].since)
             => FanoutCount(t, m.conn) = 1

\* C4 witness: c got an offer with zero tracks, and a later fan-out of another
\* client's track added the track to that same subscriber connection.
C4_Witness ==
    \E c \in Clients : \E m \in EmptyOffers(c) : \E t \in 1..Len(ot) :
        /\ ot[t].owner # c /\ FanoutDone(t)
        /\ Subscriber[c] = m.conn /\ m.conn <= ot[t].since
        /\ AddTrackCall(m.conn, t, "fanout", TRUE) \in BagToSet(calls)

\* C5: every publisher connection ever created is closed at most once, exactly
\* once when its session has disconnected, and a replaced publisher connection
\* is closed before its replacement is created.
C5_PublisherClosedExactlyOnce ==
    \A c \in Clients : \A n \in ConnsOf(c, "pub") :
        /\ conns[n].closes <= 1
        /\ pc[c] = "done" => conns[n].closes = 1
        /\ \A m \in ConnsOf(c, "pub") : n < m => conns[n].closes >= 1

\* C6: a session has at most one publisher and at most one subscriber
\* connection that is created and not closed, and it is the installed one (the
\* prior one was closed before the new one was installed); after the cleanup
\* it has none.
C6_AtMostOneOpenConnection ==
    \A c \in Clients : \A role \in {"pub", "sub"} :
        LET open == {n \in ConnsOf(c, role) : conns[n].closes = 0} IN
        /\ Cardinality(open) <= 1
        /\ open \subseteq {Installed(c, role)}
        /\ pc[c] = "done" => open = {}

\* C6 witness: a session whose publisher or subscriber connection was replaced
\* has been cleaned up.
C6_Witness ==
    \E c \in Clients : \E role \in {"pub", "sub"} :
        /\ Cardinality(ConnsOf(c, role)) >= 2
        /\ pc[c] = "done"

\* The flow of c aborts on a transport error in this step.
PublishAborts(c) == PublishCreateFails(c) \/ PublishNegotiationFails(c)
SubscribeAborts(c) ==
    \/ SubscribeCreateFails(c)
    \/ pc[c] = "sub_rlock" /\ pc'[c] = "read"

\* C7: a publish or subscribe flow that aborts on a transport error leaves the
\* connection of its role absent or exactly the one the session had before the
\* flow, as it was (not closed); the session stays in the Session Set and the
\* connection of the other role is unchanged.
C7_AbortKeepsPriorOrAbsent ==
    [][\A c \in Clients :
        /\ PublishAborts(c) =>
            /\ \/ Publisher'[c] = Nil
               \/ /\ Publisher'[c] = Publisher[c]
                  /\ conns'[Publisher[c]] = conns[Publisher[c]]
            /\ Subscriber'[c] = Subscriber[c]
            /\ (c \in clients) = (c \in clients')
        /\ SubscribeCreateFails(c) =>
            /\ \/ Subscriber'[c] = Nil
               \/ /\ Subscriber'[c] = Subscriber[c]
                  /\ conns'[Subscriber[c]] = conns[Subscriber[c]]
            /\ Publisher'[c] = Publisher[c]
            /\ (c \in clients) = (c \in clients')
        /\ (pc[c] = "sub_rlock" /\ pc'[c] = "read") =>
            \* the installed connection is the one this flow created
            /\ Subscriber'[c] # Subscriber[c]
            /\ Publisher'[c] = Publisher[c]
            /\ (c \in clients) = (c \in clients')
      ]_vars

\* C8: handleAnswer on a session without a subscriber connection makes no
\* transport call and changes neither the session's connections, the
\* connections themselves, the Session Set nor the Track Registry; the session
\* is back at its read loop with its lock free.
C8_AnswerWithoutSubscriberIsNoOp ==
    [][\A c \in Clients :
        (HandleAnswer(c) /\ Subscriber[c] = Nil) =>
            /\ calls' = calls
            /\ UNCHANGED <<Publisher, Subscriber, conns, clients, tracks, sent>>
            /\ pc'[c] = "read" /\ ~mu'[c]
      ]_vars

\* C8 witness: an answer arrived at a session that has no subscriber connection.
C8_Witness ==
    \E c \in Clients : <<c, "answer">> \in orderErrors /\ Subscriber[c] = Nil

\* The connection that target names does not exist on session c.
TargetMissing(c, target) ==
    IF target = "publish" THEN Publisher[c] = Nil ELSE Subscriber[c] = Nil

\* C9: handleICE whose target names a connection the session does not have
\* makes no add-ice-candidate call, on no connection, and changes no session
\* or registry state.
C9_IceWithoutConnectionIsDropped ==
    [][\A c \in Clients : \A target \in Targets : \A parses \in BOOLEAN :
        (HandleICEOn(c, target, parses) /\ TargetMissing(c, target)) =>
            /\ calls' = calls
            /\ UNCHANGED <<Publisher, Subscriber, conns, clients, tracks, sent>>
            /\ pc'[c] = "read" /\ ~mu'[c]
      ]_vars

\* C9 witness: a candidate was dropped at a session that has one connection
\* and not the other, and no add-ice-candidate call was made.
C9_Witness ==
    \E c \in Clients :
        /\ <<c, "ice">> \in orderErrors
        /\ (Publisher[c] = Nil) # (Subscriber[c] = Nil)
        /\ \A r \in BagToSet(calls) : r.op # "AddICECandidate"

----------------------------------------------------------------------------
\* The steps of the program are taken when they can be: a goroutine that is
\* not blocked runs, and ICE gathering completes.  The events of the
\* environment (connections, messages, channel errors, inbound tracks, the
\* end of a stream) are under no obligation.
Fairness ==
    /\ \A c \in Clients :
        /\ WF_vars(ConnectInsert(c))
        /\ WF_vars(CleanupDelete(c))
        /\ WF_vars(CleanupClose(c))
        /\ WF_vars(PublishGathered(c))
        /\ WF_vars(SubscribeSnapshot(c))
        /\ WF_vars(SubscribeGathered(c))
    /\ \A t \in 1..MaxEvents :
        /\ WF_vars(OnTrackStore(t))
        /\ WF_vars(OnTrackRLock(t))
        /\ WF_vars(OnTrackVisit(t))

FairSpec == Spec /\ Fairness

\* C10: the cleanup of a session runs at most once, the session whose read
\* loop ended on a channel error is cleaned up, and once the cleanup has
\* started the session dispatches no message (it never reads again).
C10_CleanupExactlyOnce ==
    /\ [](\A c \in Clients : cleanups[c] <= 1)
    /\ \A c \in Clients : (pc[c] = "cl_wait") ~> (pc[c] = "done" /\ cleanups[c] = 1)
    /\ [][\A c \in Clients :
            pc[c] \in {"cl_wait", "cl_close", "done"} =>
                pc'[c] \in {"cl_wait", "cl_close", "done"}]_vars

----------------------------------------------------------------------------
\* The AddTrack calls made for track t on connection n, by either path.
AddCount(t, n) ==
    FanoutCount(t, n)
        + CopiesIn(AddTrackCall(n, t, "snapshot", TRUE), calls)
        + CopiesIn(AddTrackCall(n, t, "snapshot", FALSE), calls)

\* Track t is the handle the registry holds for its owner and kind.
Registered(t) == tracks[ot[t].owner][ot[t].kind] = t

\* C11: when the inbound-track handling of session A has run to the end of
\* its fan-out and its handle is the registered one, every other connected
\* session B whose subscribe flow is past its registry snapshot has had an
\* add-track call for that handle on its current subscriber connection, made
\* by B's snapshot or by A's fan-out: no interleaving lets both paths miss it.
C11_SnapshotOrFanoutReaches ==
    \A t \in 1..Len(ot) : \A b \in clients \ {ot[t].owner} :
        (/\ FanoutDone(t) /\ Registered(t)
         /\ pc[b] \in {"read", "sub_gather", "pub_gather"}
         /\ Subscriber[b] # Nil)
        => AddCount(t, Subscriber[b]) >= 1

\* C11 witness: B subscribed after A's publisher connection was set up and
\* before A's fan-out started, B's snapshot did not see the handle, and the
\* fan-out pushed it into B's current subscriber connection.
C11_Witness ==
    \E t \in 1..Len(ot) : \E b \in clients \ {ot[t].owner} :
        /\ FanoutDone(t) /\ Registered(t)
        /\ pc[b] = "read"
        /\ Subscriber[b] # Nil
        /\ Subscriber[b] > ot[t].conn /\ Subscriber[b] <= ot[t].since
        /\ AddTrackCall(Subscriber[b], t, "fanout", TRUE) \in BagToSet(calls)
        /\ AddTrackCall(Subscriber[b], t, "snapshot", TRUE) \notin BagToSet(calls)
        /\ AddTrackCall(Subscriber[b], t, "snapshot", FALSE) \notin BagToSet(calls)

----------------------------------------------------------------------------
\* The reply of the flow that set up the connection c has in a role.
Answered(c) ==
    \E m \in sent : m.to = c /\ m.type = "publish_answer" /\ m.conn = Publisher[c]
Offered(c) ==
    \E m \in sent : m.to = c /\ m.type = "subscribe_offer" /\ m.conn = Subscriber[c]

\* The subscribe flow of c returned on a transport error (CreateOffer or
\* SetLocalDescription failed): the case the claim leaves out.
SubscribeReturned(c) ==
    pc[c] = "read" /\ Subscriber[c] # Nil /\ ~conns[Subscriber[c]].est

\* C12: under fairness, a publish request whose transport steps succeeded is
\* followed by its publish_answer and a subscribe request whose transport
\* steps succeed by its subscribe_offer, whatever the other sessions do; and
\* every reply is written once: a step writes at most one message, to the
\* session whose gathering completed, for a connection that had none.
C12_RequestGetsOneReply ==
    /\ \A c \in Clients : (pc[c] = "pub_gather") ~> Answered(c)
    /\ \A c \in Clients :
         (pc[c] = "sub_rlock") ~> (Offered(c) \/ SubscribeReturned(c))
    /\ [][\A c \in Clients :
            /\ (pc[c] = "pub_gather" /\ pc'[c] # "pub_gather") =>
                 /\ ~Answered(c) /\ Answered(c)'
                 /\ Cardinality(sent') = Cardinality(sent) + 1
            /\ (pc[c] = "sub_gather" /\ pc'[c] # "sub_gather") =>
                 /\ ~Offered(c) /\ Offered(c)'
                 /\ Cardinality(sent') = Cardinality(sent) + 1
            /\ (pc[c] \notin {"pub_gather", "sub_gather"}) =>
                 {m \in sent' : m.to = c} = {m \in sent : m.to = c}]_vars

----------------------------------------------------------------------------
\* The handler of session c is inside the section client.mu guards, at one of
\* its blocking points.
InSection(c) == pc[c] \in {"pub_gather", "sub_rlock", "sub_gather"}

\* The transport calls made on the connections session c owns.
CallsOn(b, c) ==
    {r \in BagToSet(b) : r.conn \in 1..Len(conns) /\ conns[r.conn].owner = c}

\* The connections session c owns, as they are.
OwnConns(cs, c) == {<<n, cs[n]>> : n \in {i \in 1..Len(cs) : cs[i].owner = c}}

\* C13: the mutex of a session is held exactly while its handler is inside a
\* publish or subscribe flow, and while it is held no step of another
\* goroutine (a fan-out in particular) replaces the session's publisher or
\* subscriber connection, changes them or makes a transport call on them: no
\* two of publish, subscribe, answer, ICE and fan-out add-track are inside the
\* section of one session together.
C13_SessionOpsExclusive ==
    /\ [](\A c \in Clients : mu[c] => InSection(c))
    /\ [][\A c \in Clients :
            (mu[c] /\ pc'[c] = pc[c]) =>
                /\ Publisher'[c] = Publisher[c]
                /\ Subscriber'[c] = Subscriber[c]
                /\ OwnConns(conns', c) = OwnConns(conns, c)
                /\ \A r \in CallsOn(calls', c) :
                     CopiesIn(r, calls') = CopiesIn(r, calls)]_vars

\* C13 witness: a fan-out is at the mutex of a session whose handler holds it
\* inside a subscribe flow, with a subscriber connection the add would go to.
C13_Witness ==
    \E t \in 1..Len(ot) :
        /\ ot[t].pc = "ot_fanout"
        /\ mu[ot[t].cur]
        /\ pc[ot[t].cur] = "sub_gather"
        /\ Subscriber[ot[t].cur] # Nil

----------------------------------------------------------------------------
\* The state Spec reaches when the first session has connected, published and
\* had its video and its audio track stored and fanned out (there was no other
\* session yet), and both forwarding loops run.  Three events of the
\* environment are left from here: another session can connect and subscribe
\* to the two tracks.
PublishedInit ==
    /\ clients = {1}
    /\ tracks = [c \in Clients |->
                   IF c = 1 THEN [k \in Kinds |-> IF k = "video" THEN 1 ELSE 2]
                   ELSE NoTracks]
    /\ Publisher = [c \in Clients |-> IF c = 1 THEN 1 ELSE Nil]
    /\ Subscriber = [c \in Clients |-> Nil]
    /\ mu = [c \in Clients |-> FALSE]
    /\ rwWriter = NoProc
    /\ rwReaders = {}
    /\ pc = [c \in Clients |-> IF c = 1 THEN "read" ELSE "init"]
    /\ events = MaxEvents - 3
    /\ conns = <<[NewConn(1, "pub") EXCEPT !.est = TRUE]>>
    /\ ot = [t \in 1..2 |->
               [pc |-> "ot_forward", owner |-> 1,
                kind |-> IF t = 1 THEN "video" ELSE "audio",
                conn |-> 1, cur |-> Nil, todo |-> {}, since |-> 1, end |-> "no"]]
    /\ calls = EmptyBag
    /\ sent = {[to |-> 1, type |-> "publish_answer", conn |-> 1, tracks |-> {}]}
    /\ cleanups = [c \in Clients |-> 0]
    /\ orderErrors = {}

PublishedSpec == PublishedInit /\ [][Next]_vars

\* The snapshot AddTrack calls made for track t on connection n.
SnapshotCount(b, t, n) ==
    CopiesIn(AddTrackCall(n, t, "snapshot", TRUE), b)
        + CopiesIn(AddTrackCall(n, t, "snapshot", FALSE), b)

\* C14: the snapshot loop of a subscribe makes one add-track call for every
\* handle of the other sessions in the registry, whichever of them fail, and
\* leaves the new subscriber connection installed and open; the offer written
\* when gathering completes is for that connection and carries the handles
\* whose add succeeded.
C14_FailedAddIsSkipped ==
    [][\A c \in Clients :
        /\ (pc[c] = "sub_rlock" /\ pc'[c] # "sub_rlock") =>
             /\ \A t \in SnapshotTracks(c) :
                  SnapshotCount(calls', t, Subscriber[c]) = 1
             /\ Subscriber'[c] = Subscriber[c]
             /\ conns' = conns
             /\ ~IsClosed(Subscriber[c])
        /\ (pc[c] = "sub_gather" /\ pc'[c] # "sub_gather") =>
             /\ Subscriber'[c] = Subscriber[c]
             /\ [to |-> c, type |-> "subscribe_offer", conn |-> Subscriber[c],
                 tracks |-> TracksOn(Subscriber[c])] \in sent' \ sent
      ]_vars

\* C14 witness: the add of one handle failed, the add of another succeeded on
\* the same subscriber connection, and the offer for that connection, still
\* installed and open, was sent with the handle that was added.
C14_Witness ==
    \E c \in Clients : \E m \in sent : \E t1, t2 \in 1..Len(ot) :
        /\ m.to = c /\ m.type = "subscribe_offer" /\ m.conn = Subscriber[c]
        /\ ~IsClosed(m.conn)
        /\ t1 # t2
        /\ AddTrackCall(m.conn, t1, "snapshot", FALSE) \in BagToSet(calls)
        /\ AddTrackCall(m.conn, t2, "snapshot", TRUE) \in BagToSet(calls)
        /\ m.tracks = {t2}

----------------------------------------------------------------------------
\* The step is one of the disconnect of session c: its read loop ends on a
\* channel error, or its cleanup deletes its entries or closes its connections.
DisconnectStep(c) ==
    /\ pc[c] \in {"read", "cl_wait", "cl_close"}
    /\ pc'[c] \in {"cl_wait", "cl_close", "done"}
    /\ pc'[c] # pc[c]

\* C15: a step of the disconnect of one session leaves every other session's
\* Session Set entry, publisher and subscriber connection (the fields and the
\* connections themselves) and Track Registry entries as they were; when the
\* session has no registry entry of its own, the registry is unchanged.
C15_DisconnectAffectsOwnSessionOnly ==
    [][\A c \in Clients :
        DisconnectStep(c) =>
            /\ \A d \in Clients \ {c} :
                /\ (d \in clients') = (d \in clients)
                /\ Publisher'[d] = Publisher[d]
                /\ Subscriber'[d] = Subscriber[d]
                /\ OwnConns(conns', d) = OwnConns(conns, d)
                /\ tracks'[d] = tracks[d]
                /\ pc'[d] = pc[d]
            /\ tracks[c] = NoTracks => tracks' = tracks
      ]_vars

\* C15 witness: a session that only subscribed has been cleaned up, and the
\* session that published is in the Session Set with its track registered and
\* its publisher connection open.
C15_Witness ==
    \E c \in Clients : \E d \in clients \ {c} :
        /\ pc[c] = "done" /\ Publisher[c] = Nil
        /\ Subscriber[c] # Nil /\ IsClosed(Subscriber[c])
        /\ tracks[d] # NoTracks
        /\ Publisher[d] # Nil /\ ~IsClosed(Publisher[d])

----------------------------------------------------------------------------
\* p waits for q through a chain of at most n goroutines, each unable to take
\* its next step before the next one takes one.
RECURSIVE WaitChain(_, _, _)
WaitChain(p, q, n) ==
    \/ WaitsFor(p, q)
    \/ n > 1 /\ \E r \in Procs : WaitsFor(p, r) /\ WaitChain(r, q, n - 1)

\* The handler of session a is suspended at <-gatheringComplete.
Gathering(a) == pc[a] \in {"pub_gather", "sub_gather"}

\* Session d is at its connect, at its cleanup or at the registry snapshot of
\* its subscribe, and cannot go on before the gathering of session a completes.
WaitsOnGathering(d, a) ==
    /\ d # a
    /\ Gathering(a)
    /\ pc[d] \in {"connect", "cl_wait", "sub_rlock"}
    /\ WaitChain(WS(d), WS(a), 3)

\* C16: in no reachable state does the connect, the disconnect cleanup or the
\* subscribe registry snapshot of one session have to wait for the ICE
\* gathering of another session to complete.
C16_NoWaitOnOthersGathering ==
    \A a \in Clients : \A d \in Clients : ~WaitsOnGathering(d, a)

----------------------------------------------------------------------------
\* track.Read on a stream of a closed publisher connection returns an error:
\* the engine ends the streams of a connection when it is closed.
ForwardClosed(t) == OnTrackEnd(t) /\ IsClosed(ot[t].conn)

EngineFairSpec == FairSpec /\ \A t \in 1..MaxEvents : WF_vars(ForwardClosed(t))

\* C17: a forwarding loop that reads from a stream of a publisher connection
\* that has been closed (by the disconnect of its session or by a repeated
\* publish) terminates; a terminated loop stays terminated and no callback
\* starts on a closed connection; and a loop ends by no step other than the
\* return after a failed read.
C17_ForwardingEndsAfterClose ==
    /\ \A t \in 1..MaxEvents :
         (At(t, "ot_forward") /\ IsClosed(ot[t].conn)) ~> At(t, "done")
    /\ [][/\ \A t \in 1..Len(ot) :
               /\ ot[t].pc = "done" => ot'[t] = ot[t]
               /\ (ot[t].pc # "done" /\ ot'[t].pc = "done") =>
                    ot[t].pc = "ot_forward" /\ OnTrackEnd(t)
          /\ Len(ot') >= Len(ot)
          /\ \A t \in (Len(ot) + 1)..Len(ot') : ~IsClosed(ot'[t].conn)]_vars

\* C17 witness: the forwarding loop of a track ended on a read that failed
\* when its publisher connection was closed, and the session has disconnected.
C17_Witness ==
    \E t \in 1..Len(ot) :
        /\ ot[t].pc = "done" /\ ot[t].end = "closed"
        /\ pc[ot[t].owner] = "done"

----------------------------------------------------------------------------
\* C18: for every track handle and every subscriber connection, at most one
\* add-track call is made, counting the calls of the subscribe snapshot and
\* those of the fan-out together.
C18_AtMostOneAddPerConnection ==
    \A t \in 1..Len(ot) : \A n \in 1..Len(conns) : AddCount(t, n) <= 1

----------------------------------------------------------------------------
\* The transport calls a step makes: the records whose count grows.
NewCalls == {r \in BagToSet(calls') : CopiesIn(r, calls') > CopiesIn(r, calls)}

\* C19: no step makes a transport call (add-track, set-remote-description,
\* add-ice-candidate) on a connection that is closed, and no step closes a
\* connection that is closed already.
C19_NoCallOnClosedConnection ==
    [][/\ \A r \in NewCalls : ~IsClosed(r.conn)
       /\ \A n \in 1..Len(conns) :
            conns'[n].closes > conns[n].closes => conns[n].closes = 0]_vars

----------------------------------------------------------------------------
\* C20: every add-track call, of a subscribe snapshot or of a fan-out, is made
\* on a subscriber connection, for a handle whose publishing session is not
\* the session of that connection.
C20_OwnTracksNeverLoopBack ==
    \A r \in BagToSet(calls) :
        r.op = "AddTrack" =>
            /\ r.track \in 1..Len(ot) /\ r.conn \in 1..Len(conns)
            /\ conns[r.conn].role = "sub"
            /\ conns[r.conn].owner # ot[r.track].owner

\* C20 witness: a session that has a subscriber connection published a track,
\* the fan-out of the track ran to its end with the session in the Session
\* Set, and the connection, still installed, got no add-track call for it.
C20_Witness ==
    \E t \in 1..Len(ot) :
        LET s == ot[t].owner IN
        /\ FanoutDone(t) /\ Registered(t)
        /\ s \in clients
        /\ Subscriber[s] # Nil /\ Subscriber[s] <= ot[t].since
        /\ ~IsClosed(Subscriber[s])
        /\ AddCount(t, Subscriber[s]) = 0
====
